---- MODULE Spec2Model ----
(***************************************************************************)
(* Model of the enrichment stage of the SpaceX launch tracker              *)
(* (src/src/tasks/transform.py): _parse_iso_datetime and                   *)
(* transform_launches.                                                     *)
(*                                                                         *)
(* Python values are modelled as follows.                                  *)
(*  - A scalar value is a string token: "None" is Python's None, ""  the   *)
(*    empty string, "['u']" a non-empty list (truthy, unhashable), other   *)
(*    tokens are ordinary strings / booleans.                              *)
(*  - A list element is a record with the flag isdict; a dict carries one  *)
(*    field per key the code reads, and the token ABSENT marks a key that  *)
(*    is not in the dict (ABSENT is never a Python value).                 *)
(*  - A timestamp string is the sequence of its lexical parts              *)
(*    (date-time body, offset designators).                                *)
(***************************************************************************)
EXTENDS Integers, Sequences, FiniteSets, TLC

\* ------------------------------------------------------------------ bounds
\* total number of elements of the three lists handed to one call
MaxItems == 4

\* ------------------------------------------------------------ Python values
None == "None"
ABSENT == "<absent>"
NonEmptyList == "['u']"

\* bool(v) is False exactly for these tokens
FalsyValues == {"None", "", "[]", "False", "0"}
\* hash(v) raises TypeError exactly for these tokens (lists, dicts)
UnhashableValues == {"['u']", "[]", "{}"}

Truthy(v) == v \notin FalsyValues
Hashable(v) == v \notin UnhashableValues

\* -------------------------------------------------------- timestamp strings
NotAString(v) == [isstr |-> FALSE, toks |-> <<>>, v |-> v]
Str(toks) == [isstr |-> TRUE, toks |-> toks, v |-> "str"]

ValidBodies == {"2023-01-15T10:00:00.000", "2023-02-20T12:30:00"}
NumericOffsets == {"+00:00", "+01:00"}

NoneDT == [isnone |-> TRUE, body |-> "", tz |-> ""]
DateTime(body, tz) == [isnone |-> FALSE, body |-> body, tz |-> tz]

\* str.endswith("Z")
EndsWithZ(toks) == Len(toks) > 0 /\ toks[Len(toks)] = "Z"

\* date_str[:-1] + "+00:00"
\* (variant that only strips the Z: StripZ)
StripZ(toks) == SubSeq(toks, 1, Len(toks) - 1)
ReplaceZ(toks) == [i \in 1..Len(toks) |-> IF i = Len(toks) THEN "+00:00" ELSE toks[i]]

\* datetime.fromisoformat raises ValueError unless the text is a date-time
\* body optionally followed by one numeric offset
FromIsoOk(toks) ==
    /\ Len(toks) \in {1, 2}
    /\ toks[1] \in ValidBodies
    /\ Len(toks) = 2 => toks[2] \in NumericOffsets

\* seconds fractions of .000 denote the same instant as none
CanonicalBody(b) == IF b = "2023-01-15T10:00:00.000" THEN "2023-01-15T10:00:00" ELSE b

FromIso(toks) ==
    DateTime(CanonicalBody(toks[1]), IF Len(toks) = 2 THEN toks[2] ELSE "naive")

\* the exception datetime.fromisoformat raises on toks ("none": it returns)
FromIsoRaises(toks) == IF FromIsoOk(toks) THEN "none" ELSE "ValueError"

\* except ValueError: the exceptions the handler catches
\* (variant with the wrong exception class: HandledTypeErrorOnly)
HandledTypeErrorOnly(exception) == exception = "TypeError"
Handled(exception) == exception = "ValueError"

\* the whole function: the value it returns, or the exception that escapes it
parse_iso_datetime_outcome(date_str) ==
    IF ~date_str.isstr THEN [raised |-> "none", value |-> NoneDT]
    ELSE LET s == IF EndsWithZ(date_str.toks) THEN ReplaceZ(date_str.toks)
                  ELSE date_str.toks
             exception == FromIsoRaises(s)
         IN IF exception = "none" THEN [raised |-> "none", value |-> FromIso(s)]
            ELSE IF Handled(exception) THEN [raised |-> "none", value |-> NoneDT]
            ELSE [raised |-> exception, value |-> NoneDT]

parse_iso_datetime(date_str) == parse_iso_datetime_outcome(date_str).value

\* ------------------------------------------------------ reference records
RefDict(id, name, full_name) ==
    [isdict |-> TRUE, v |-> "dict", id |-> id, name |-> name, full_name |-> full_name]
RefNonDict(v) ==
    [isdict |-> FALSE, v |-> v, id |-> ABSENT, name |-> ABSENT, full_name |-> ABSENT]

\* the {} default of dict.get(key, {})
EmptyDict == RefDict(ABSENT, ABSENT, ABSENT)

LaunchpadItems ==
    { RefDict("lp1", "Pad A", "Launch Complex A"),
      RefDict("lp1", "Pad B", ABSENT),
      RefDict(ABSENT, "Pad C", "Launch Complex C"),
      RefDict(NonEmptyList, "Pad D", ABSENT),
      RefDict("", "Pad E", "Launch Complex E"),
      RefNonDict("None") }

RocketItems ==
    { RefDict("r1", "Rocket X", ABSENT),
      RefDict("r1", "Rocket Y", ABSENT),
      RefDict(ABSENT, "Rocket Z", ABSENT),
      RefDict(NonEmptyList, "Rocket U", ABSENT),
      RefNonDict("garbage") }

\* ------------------------------------------------------------ raw launches
LaunchDict(id, name, date_utc, details, launchpad, rocket, success, upcoming) ==
    [isdict |-> TRUE, v |-> "dict", id |-> id, name |-> name, date_utc |-> date_utc,
     details |-> details, launchpad |-> launchpad, rocket |-> rocket,
     success |-> success, upcoming |-> upcoming]
LaunchNonDict(v) ==
    [isdict |-> FALSE, v |-> v, id |-> ABSENT, name |-> ABSENT,
     date_utc |-> NotAString(ABSENT), details |-> ABSENT, launchpad |-> ABSENT,
     rocket |-> ABSENT, success |-> ABSENT, upcoming |-> ABSENT]

LaunchItems ==
    { LaunchDict("l1", "Launch Alpha", Str(<<"2023-01-15T10:00:00.000", "Z">>),
                 "Alpha mission details", "lp1", "r1", "True", "False"),
      LaunchDict("l1", "Launch Beta", Str(<<"2023-02-20T12:30:00", "+00:00">>),
                 ABSENT, "lp2", ABSENT, "False", "True"),
      LaunchDict(ABSENT, ABSENT, NotAString(ABSENT), ABSENT, ABSENT, ABSENT,
                 ABSENT, ABSENT),
      LaunchDict(None, None, NotAString(None), None, None, None, None, None),
      LaunchDict("l2", "Launch Gamma", Str(<<"2023-02-20T12:30:00">>), ABSENT,
                 "", "r1", ABSENT, "True"),
      LaunchDict("l3", "Launch Delta", Str(<<"garbage">>), ABSENT,
                 NonEmptyList, "r1", "True", "False"),
      LaunchDict("l3", "Launch Epsilon", Str(<<"2023-01-15T10:00:00.000", "+01:00", "Z">>),
                 ABSENT, "lp1", NonEmptyList, "True", "False"),
      LaunchNonDict("None"),
      LaunchNonDict("garbage") }

\* the lists of n elements of S
ListsOf(S, n) == [1..n -> S]

\* ---------------------------------------------------------- dict operations
\* d.get(key): the value, or None when the key is not in d
\* (variant without the None default: GetNoDefault)
GetNoDefault(d, key) == d[key]
get(d, key) == IF d[key] = ABSENT THEN None ELSE d[key]

\* key in d
HasKey(d, key) == d[key] # ABSENT

\* ------------------------------------------------------- reference indexing
EmptyMap == [k \in {} |-> EmptyDict]

\* the filter of the comprehension: isinstance(lp, dict) and "id" in lp
\* (variant without the "id" in lp test: IndexableFirstOnlyDict)
IndexableFirstOnlyDict(r) == r.isdict
Indexable(r) == r.isdict /\ HasKey(r, "id")

\* one insertion of the comprehension: m[r["id"]] = r
\* (variant that keeps the first record of an id: MapPutKeepFirst)
MapPutKeepFirst(m, r) ==
    [k \in DOMAIN m \cup {r.id} |-> IF k \in DOMAIN m THEN m[k] ELSE r]
MapPut(m, r) ==
    [k \in DOMAIN m \cup {r.id} |-> IF k = r.id THEN r ELSE m[k]]

\* {r["id"]: r for r in refs if isinstance(r, dict) and "id" in r};
\* hashing an unhashable id raises TypeError and ends the comprehension
RECURSIVE BuildMapFrom(_, _, _)
BuildMapFrom(refs, i, m) ==
    IF i > Len(refs) THEN [raised |-> FALSE, map |-> m]
    ELSE IF ~Indexable(refs[i]) THEN BuildMapFrom(refs, i + 1, m)
    ELSE IF ~Hashable(refs[i].id) THEN [raised |-> TRUE, map |-> m]
    ELSE BuildMapFrom(refs, i + 1, MapPut(m, refs[i]))

BuildMap(refs) == BuildMapFrom(refs, 1, EmptyMap)

\* m.get(key, {})
MapGet(m, key) == IF key \in DOMAIN m THEN m[key] ELSE EmptyDict

\* m.get(key, {}) if key else {}: the lookup hashes key and raises TypeError
\* on an unhashable one; a falsy key is never looked up
LookupRaises(key) == Truthy(key) /\ ~Hashable(key)
Lookup(m, key) == IF Truthy(key) THEN MapGet(m, key) ELSE EmptyDict

\* ------------------------------------------------------------ the enricher
OutputKeys == {"_id", "name", "date_utc", "details", "launchpad_id", "launchpad_name",
               "launchpad_fullname", "rocket_id", "rocket_name", "success", "upcoming"}

\* "launchpad_id": launchpad_id, the foreign key as read from the launch
\* (variant that takes the id from the resolved record: IdOfResolvedRecord)
IdOfResolvedRecord(foreign_key, reference_data) == get(reference_data, "id")
ForeignKeyOut(foreign_key, reference_data) == foreign_key

\* launch.get("date_utc"), the argument of _parse_iso_datetime
DateArgument(launch) ==
    IF launch.date_utc.v = ABSENT THEN NotAString(None) ELSE launch.date_utc

\* the dict literal appended for one launch
FieldValue(launch, launchpad_data, rocket_data, key) ==
    CASE key = "_id" -> get(launch, "id")
      [] key = "name" -> get(launch, "name")
      [] key = "date_utc" ->
            parse_iso_datetime(DateArgument(launch))
      [] key = "details" -> get(launch, "details")
      [] key = "launchpad_id" -> ForeignKeyOut(get(launch, "launchpad"), launchpad_data)
      [] key = "launchpad_name" -> get(launchpad_data, "name")
      [] key = "launchpad_fullname" -> get(launchpad_data, "full_name")
      [] key = "rocket_id" -> ForeignKeyOut(get(launch, "rocket"), rocket_data)
      [] key = "rocket_name" -> get(rocket_data, "name")
      [] key = "success" -> get(launch, "success")
      [] key = "upcoming" -> get(launch, "upcoming")

\* the record of all eleven keys
\* (variant that leaves out the keys whose value is None: EnrichedOmitNone)
EnrichedOmitNone(launch, launchpad_data, rocket_data) ==
    [key \in {k \in OutputKeys :
                 k = "date_utc" \/ FieldValue(launch, launchpad_data, rocket_data, k) # None}
        |-> FieldValue(launch, launchpad_data, rocket_data, key)]
Enriched(launch, launchpad_data, rocket_data) ==
    [key \in OutputKeys |-> FieldValue(launch, launchpad_data, rocket_data, key)]

\* if not isinstance(launch, dict): continue
\* (variant that also skips a launch without id: SkippedAlsoWithoutId)
SkippedAlsoWithoutId(launch) == ~launch.isdict \/ ~HasKey(launch, "id")
Skipped(launch) == ~launch.isdict

\* transformed.append(record)
\* (variant that inserts at the front: Prepended)
Prepended(acc, record) == <<record>> \o acc
Appended(acc, record) == Append(acc, record)

\* transformed = []
\* (variant that keeps the list of the previous call: KeptList)
KeptList(previous) == previous
FreshList(previous) == <<>>

\* the for loop, from element i on, with acc the list built so far
RECURSIVE Loop(_, _, _, _, _)
Loop(raw, lmap, rmap, i, acc) ==
    IF i > Len(raw) THEN [status |-> "returned", site |-> "", value |-> acc]
    ELSE IF Skipped(raw[i]) THEN Loop(raw, lmap, rmap, i + 1, acc)
    ELSE LET launch == raw[i]
             launchpad_id == get(launch, "launchpad")
             rocket_id == get(launch, "rocket")
         IN IF LookupRaises(launchpad_id)
            THEN [status |-> "raised", site |-> "launchpad_lookup", value |-> acc]
            ELSE IF LookupRaises(rocket_id)
            THEN [status |-> "raised", site |-> "rocket_lookup", value |-> acc]
            ELSE IF parse_iso_datetime_outcome(DateArgument(launch)).raised # "none"
            THEN [status |-> "raised", site |-> "parse_iso_datetime", value |-> acc]
            ELSE Loop(raw, lmap, rmap, i + 1,
                      Appended(acc, Enriched(launch, Lookup(lmap, launchpad_id),
                                             Lookup(rmap, rocket_id))))

\* an argument list after the call: the function only iterates over its
\* arguments and reads their elements (isinstance, in, .get), it assigns to none
\* (variant that consumes the list while iterating: ArgumentDrained)
ArgumentDrained(list) == <<>>
ArgumentAfter(list) == list

\* the object a return statement hands back: the list literal of
\* `return []` or the list bound to `transformed`
EmptyReturnObject == "list literal of return []"
LoopReturnObject == "list built in transformed"

\* the whole function: outcome, plus the locals it leaves behind
transform_launches(raw, lps, rs, previous) ==
    LET start == FreshList(previous)
        lm == BuildMap(lps)
        rm == IF lm.raised THEN [raised |-> FALSE, map |-> EmptyMap] ELSE BuildMap(rs)
    IN IF lm.raised
       THEN [status |-> "raised", site |-> "launchpad_map", value |-> start,
             object |-> "", launchpad_map |-> lm.map, rocket_map |-> EmptyMap]
       ELSE IF rm.raised
       THEN [status |-> "raised", site |-> "rocket_map", value |-> start,
             object |-> "", launchpad_map |-> lm.map, rocket_map |-> rm.map]
       ELSE IF Len(raw) = 0
       THEN [status |-> "returned", site |-> "", value |-> <<>>,
             object |-> EmptyReturnObject, launchpad_map |-> lm.map, rocket_map |-> rm.map]
       ELSE LET out == Loop(raw, lm.map, rm.map, 1, start)
            IN [status |-> out.status, site |-> out.site, value |-> out.value,
                object |-> IF out.status = "returned" THEN LoopReturnObject ELSE "",
                launchpad_map |-> lm.map, rocket_map |-> rm.map]

\* ------------------------------------------------------------------- state
VARIABLES raw_launches, launchpads, rockets, transformed, launchpad_map, rocket_map,
          result, seen

\* which object the last call returned ("" before a call and after a raise)
VARIABLES returned_object

coreVars == <<raw_launches, launchpads, rockets, transformed, launchpad_map, rocket_map,
              result, seen, returned_object>>

\* --- a direct use of _parse_iso_datetime: the value handed in, the outcome
\* of the call on it, and the outcomes on the same text followed by "Z" and
\* by "+00:00"
VARIABLES date_in, parsed, parsed_z, parsed_utc

parseVars == <<date_in, parsed, parsed_z, parsed_utc>>
NotParsed == [done |-> FALSE, raised |-> "none", value |-> NoneDT]
ParseIdle ==
    /\ date_in = NotAString(ABSENT)
    /\ parsed = NotParsed
    /\ parsed_z = NotParsed
    /\ parsed_utc = NotParsed

\* --- the API client: how the network answers the request in flight, and
\* the outcome of the last _request
VARIABLES http, fetched

clientVars == <<http, fetched>>
NoAnswer == [transport |-> "none", status |-> 0, body |-> [kind |-> "empty", data |-> <<>>]]
NotFetched == [kind |-> "idle", value |-> <<>>, message |-> "", status_code |-> "None",
               url |-> "None", response_text |-> "None", original_exception |-> "None"]
ClientIdle ==
    /\ http = NoAnswer
    /\ fetched = NotFetched

\* --- the launches collection, the batch handed to store_launches and the
\* outcome of the last store_launches
VARIABLES collection, batch, stored

storeVars == <<collection, batch, stored>>
NotStored == [kind |-> "idle", count |-> 0, launches |-> <<>>, before |-> {}]
StoreIdle ==
    /\ collection = {}
    /\ batch = <<>>
    /\ stored = NotStored

\* --- the webhooks collection, the message handed to notify_webhook, the
\* POSTs sent so far and the outcome of the last attempt of notify_webhook
VARIABLES webhooks, message_in, posts, notified

notifyVars == <<webhooks, message_in, posts, notified>>
NotNotified == [attempts |-> 0, failures |-> 0, sent |-> 0, answer |-> NoAnswer,
                outcome |-> NotFetched]
NotifyIdle ==
    /\ webhooks = {}
    /\ message_in = ""
    /\ posts = <<>>
    /\ notified = NotNotified

\* --- the flow update_spacex_launches: its position and locals, and the task
\* runs it has made
VARIABLES flow, calls

\* what the cycles that have ended fetched and did
VARIABLES history

flowVars == <<flow, calls, history>>
NotStarted == [step |-> "get_launches", raw_launches |-> <<>>, launchpads |-> <<>>,
               rockets |-> <<>>, launches |-> <<>>, new_launches |-> 0]
FlowIdle ==
    /\ flow = NotStarted
    /\ calls = <<>>
    /\ history = <<>>

serviceVars == <<storeVars, notifyVars, flowVars>>
ServicesIdle == StoreIdle /\ NotifyIdle /\ FlowIdle

\* --- the dashboard's webhook dialog: the text in the URL input, and what
\* the last press of Save saw and did
VARIABLES url_in, dialog

uiVars == <<url_in, dialog>>
NoUrl == [isnone |-> TRUE, text |-> ""]
NotSaved == [saved |-> FALSE, url |-> NoUrl, launches_before |-> {}, webhooks_before |-> {},
             attempts_before |-> 0]
UiIdle ==
    /\ url_in = NoUrl
    /\ dialog = NotSaved

\* --- the statistics functions: the frame handed in, and the last call made
\* on it with its outcome
VARIABLES frame, computed

statsVars == <<frame, computed>>
NoFrame == [columns |-> {}, index |-> "RangeIndex", months |-> <<>>, rows |-> <<>>]
NotComputed == [fn |-> "idle", arg |-> "", kind |-> "idle", type |-> "", items |-> <<>>]
StatsIdle ==
    /\ frame = NoFrame
    /\ computed = NotComputed

\* --- the dashboard's filter: the sidebar selections and the query built
\* from them
VARIABLES filters, mongo_query

queryVars == <<filters, mongo_query>>
NoSelection == [isnone |-> TRUE, items |-> <<>>]
NoDate == [isdate |-> FALSE, day |-> 0]
NoFilters == [start_date_val |-> NoDate, end_date_val |-> NoDate,
              selected_rockets |-> NoSelection, selected_status |-> None,
              selected_sites |-> NoSelection]
NoDatetime == [day |-> 0, time |-> ""]
NotBuilt == [built |-> FALSE, keys |-> {}, gte |-> NoDatetime, lte |-> NoDatetime,
             rocket_name |-> <<>>, success |-> None, launchpad_name |-> <<>>]
QueryIdle ==
    /\ filters = NoFilters
    /\ mongo_query = NotBuilt

toolVars == <<uiVars, statsVars, queryVars>>
ToolsIdle == UiIdle /\ StatsIdle /\ QueryIdle

otherVars == <<parseVars, clientVars, serviceVars, toolVars>>
OthersIdle == ParseIdle /\ ClientIdle /\ ServicesIdle /\ ToolsIdle

vars == <<coreVars, otherVars>>

Idle == [status |-> "idle", site |-> "", value |-> <<>>]
NoCall == [made |-> FALSE, raw |-> <<>>, lps |-> <<>>, rs |-> <<>>, result |-> Idle]

\* the effect of one call on the state
Run(raw, lps, rs) ==
    LET r == transform_launches(raw, lps, rs, transformed)
    IN /\ raw_launches' = ArgumentAfter(raw)
       /\ launchpads' = ArgumentAfter(lps)
       /\ rockets' = ArgumentAfter(rs)
       /\ returned_object' = r.object
       /\ transformed' = r.value
       /\ launchpad_map' = r.launchpad_map
       /\ rocket_map' = r.rocket_map
       /\ result' = [status |-> r.status, site |-> r.site, value |-> r.value]

\* One call on arbitrary fetched lists
Init ==
    /\ \E a \in 0..MaxItems : \E b \in 0..(MaxItems - a) : \E c \in 0..(MaxItems - a - b) :
          /\ raw_launches \in ListsOf(LaunchItems, a)
          /\ launchpads \in ListsOf(LaunchpadItems, b)
          /\ rockets \in ListsOf(RocketItems, c)
    /\ transformed = <<>>
    /\ launchpad_map = EmptyMap
    /\ rocket_map = EmptyMap
    /\ result = Idle
    /\ seen = NoCall
    /\ returned_object = ""
    /\ OthersIdle

TransformLaunches ==
    /\ result.status = "idle"
    /\ Run(raw_launches, launchpads, rockets)
    /\ UNCHANGED seen
    /\ UNCHANGED otherVars

Next == TransformLaunches

Spec == Init /\ [][Next]_vars

\* A run of several calls in one process, one earlier call kept for comparison
SomeLaunchLists ==
    { <<>>,
      <<LaunchDict("l1", "Launch Alpha", Str(<<"2023-01-15T10:00:00.000", "Z">>),
                   "Alpha mission details", "lp1", "r1", "True", "False")>>,
      <<LaunchDict("l1", "Launch Alpha", Str(<<"2023-01-15T10:00:00.000", "Z">>),
                   "Alpha mission details", "lp1", "r1", "True", "False"),
        LaunchNonDict("None")>>,
      <<LaunchDict("l2", "Launch Gamma", Str(<<"2023-02-20T12:30:00">>), ABSENT,
                   "", "r1", ABSENT, "True"),
        LaunchDict("l1", "Launch Alpha", Str(<<"2023-01-15T10:00:00.000", "Z">>),
                   "Alpha mission details", "lp1", "r1", "True", "False")>>,
      <<LaunchDict("l3", "Launch Delta", Str(<<"garbage">>), ABSENT,
                   NonEmptyList, "r1", "True", "False")>> }
SomeLaunchpadLists ==
    { <<>>,
      <<RefDict("lp1", "Pad A", "Launch Complex A")>>,
      <<RefDict("lp1", "Pad A", "Launch Complex A"), RefDict("lp1", "Pad B", ABSENT)>>,
      <<RefDict(NonEmptyList, "Pad D", ABSENT)>> }
SomeRocketLists ==
    { <<>>, <<RefDict("r1", "Rocket X", ABSENT)>> }

InitCalls ==
    /\ raw_launches = <<>>
    /\ launchpads = <<>>
    /\ rockets = <<>>
    /\ transformed = <<>>
    /\ launchpad_map = EmptyMap
    /\ rocket_map = EmptyMap
    /\ result = Idle
    /\ seen = NoCall
    /\ returned_object = ""
    /\ OthersIdle

\* one call; keep says whether the observer records this call in seen
Invoke ==
    \E raw \in SomeLaunchLists, lps \in SomeLaunchpadLists, rs \in SomeRocketLists,
       keep \in BOOLEAN :
        /\ Run(raw, lps, rs)
        /\ seen' = IF keep
                   THEN [made |-> TRUE, raw |-> raw, lps |-> lps, rs |-> rs, result |-> result']
                   ELSE seen
        /\ UNCHANGED otherVars

NextCalls == Invoke

SpecCalls == InitCalls /\ [][NextCalls]_vars


\* ------------------------------------------------- timestamp normalisation
MaxTokens == 3

TimestampTokens ==
    ValidBodies \cup {"2023-02-30T10:00:00", "garbage", "Z"} \cup NumericOffsets

\* what a launch can carry under date_utc: a text of up to MaxTokens parts,
\* None, a number, a mapping, or no date_utc key at all
DateValues ==
    {Str(t) : t \in UNION {[1..n -> TimestampTokens] : n \in 0..MaxTokens}}
        \cup {NotAString(None), NotAString("123"), NotAString("{}"), NotAString(ABSENT)}

LaunchWithDate(d) ==
    LaunchDict("l1", "Launch Alpha", d, ABSENT, ABSENT, ABSENT, "True", "False")

InitParse ==
    /\ date_in \in DateValues
    /\ parsed = NotParsed
    /\ parsed_z = NotParsed
    /\ parsed_utc = NotParsed
    /\ raw_launches = <<LaunchWithDate(date_in)>>
    /\ launchpads = <<>>
    /\ rockets = <<>>
    /\ transformed = <<>>
    /\ launchpad_map = EmptyMap
    /\ rocket_map = EmptyMap
    /\ result = Idle
    /\ seen = NoCall
    /\ returned_object = ""
    /\ ClientIdle
    /\ ServicesIdle
    /\ ToolsIdle

Parsed(outcome) == [done |-> TRUE, raised |-> outcome.raised, value |-> outcome.value]

\* _parse_iso_datetime(launch.get("date_utc")), and for a text also the calls
\* on the text followed by "Z" and by "+00:00"
ParseIsoDatetime ==
    /\ ~parsed.done
    /\ parsed' = Parsed(parse_iso_datetime_outcome(DateArgument(LaunchWithDate(date_in))))
    /\ IF date_in.isstr
       THEN /\ parsed_z' =
                  Parsed(parse_iso_datetime_outcome(Str(Append(date_in.toks, "Z"))))
            /\ parsed_utc' =
                  Parsed(parse_iso_datetime_outcome(Str(Append(date_in.toks, "+00:00"))))
       ELSE UNCHANGED <<parsed_z, parsed_utc>>
    /\ UNCHANGED <<date_in, coreVars, clientVars, serviceVars, toolVars>>

NextParse == ParseIsoDatetime \/ TransformLaunches

SpecParse == InitParse /\ [][NextParse]_vars

\* ------------------------------------------ a key left out or set to null
OptionalKeys == {"id", "name", "date_utc", "details", "launchpad", "rocket",
                 "success", "upcoming"}

\* the launch with key k deleted (v = ABSENT) or set to v
WithKey(launch, k, v) ==
    IF k = "date_utc" THEN [launch EXCEPT !["date_utc"] = NotAString(v)]
    ELSE [launch EXCEPT ![k] = v]

\* one call on a launch without the key k followed by the same launch with
\* k: null
InitNull ==
    /\ \E launch \in {l \in LaunchItems : l.isdict}, k \in OptionalKeys :
          raw_launches = <<WithKey(launch, k, ABSENT), WithKey(launch, k, None)>>
    /\ launchpads \in ListsOf(LaunchpadItems, 0) \cup ListsOf(LaunchpadItems, 1)
    /\ rockets \in ListsOf(RocketItems, 0) \cup ListsOf(RocketItems, 1)
    /\ transformed = <<>>
    /\ launchpad_map = EmptyMap
    /\ rocket_map = EmptyMap
    /\ result = Idle
    /\ seen = NoCall
    /\ returned_object = ""
    /\ OthersIdle

SpecNull == InitNull /\ [][Next]_vars

\* ------------------------------------------------------------ API client
BASE_URL == "https://api.spacexdata.com/v4"

\* httpx.Response.is_success
IsSuccess(status) == status \in 200..299

\* the classes an exception is an instance of (httpx and json hierarchies)
ClassesOf(exception) ==
    CASE exception \in {"ConnectTimeout", "ReadTimeout"} ->
            {exception, "TimeoutException", "TransportError", "RequestError", "HTTPError",
             "Exception"}
      [] exception \in {"ConnectError", "ReadError"} ->
            {exception, "NetworkError", "TransportError", "RequestError", "HTTPError",
             "Exception"}
      [] exception = "HTTPStatusError" -> {exception, "HTTPError", "Exception"}
      [] exception = "JSONDecodeError" -> {exception, "ValueError", "Exception"}
      [] exception = "UnicodeDecodeError" ->
            {exception, "UnicodeError", "ValueError", "Exception"}
      [] OTHER -> {exception, "Exception"}

\* the except clauses of _request, in textual order
\* (variant without the final `except Exception`: ClausesWithoutCatchAll)
ClausesWithoutCatchAll ==
    <<"HTTPStatusError", "TimeoutException", "RequestError", "JSONDecodeError">>
ExceptClauses ==
    <<"HTTPStatusError", "TimeoutException", "RequestError", "JSONDecodeError", "Exception">>

\* the first of the clauses that catches the exception, 0 when none does
FirstMatch(clauses, exception) ==
    IF \E i \in DOMAIN clauses : clauses[i] \in ClassesOf(exception)
    THEN CHOOSE i \in DOMAIN clauses :
            /\ clauses[i] \in ClassesOf(exception)
            /\ \A j \in 1..(i - 1) : clauses[j] \notin ClassesOf(exception)
    ELSE 0
MatchingClause(exception) == FirstMatch(ExceptClauses, exception)

\* the exception the try block raises for an answer of the network ("none":
\* the block returns response.json())
TryRaises(answer) ==
    IF answer.transport # "response" THEN answer.transport
    ELSE IF ~IsSuccess(answer.status) THEN "HTTPStatusError"
    ELSE CASE answer.body.kind = "json" -> "none"
           [] answer.body.kind = "bad bytes" -> "UnicodeDecodeError"
           [] OTHER -> "JSONDecodeError"

\* ExternalAPIException(message, status_code, url, response_text, original_exception)
ExternalAPIException(message, status_code, url, response_text, original_exception) ==
    [kind |-> "ExternalAPIException", value |-> <<>>, message |-> message,
     status_code |-> status_code, url |-> url, response_text |-> response_text,
     original_exception |-> original_exception]

\* the exception object one except clause raises
Translated(clause, exception, answer, request_url) ==
    CASE clause = "HTTPStatusError" ->
            ExternalAPIException("API returned an error status " \o ToString(answer.status),
                                 ToString(answer.status), request_url, answer.body.kind,
                                 exception)
      [] clause = "TimeoutException" ->
            ExternalAPIException("Request timed out", "None", request_url, "None", exception)
      [] clause = "RequestError" ->
            ExternalAPIException("A request error occurred: " \o exception, "None",
                                 request_url, "None", exception)
      [] clause = "JSONDecodeError" ->
            ExternalAPIException("Failed to decode JSON response", "None", request_url,
                                 "None", exception)
      [] clause = "Exception" ->
            ExternalAPIException("An unexpected error occurred: " \o exception, "None",
                                 request_url, "None", exception)

\* SpaceXAPIClient._request(method, endpoint) when the network gives `answer`
request(method, endpoint, answer) ==
    LET request_url == BASE_URL \o endpoint
        exception == TryRaises(answer)
        clause == MatchingClause(exception)
    IN IF exception = "none"
       THEN [kind |-> "returned", value |-> answer.body.data, message |-> "",
             status_code |-> "None", url |-> "None", response_text |-> "None",
             original_exception |-> "None"]
       ELSE IF clause = 0
       THEN [kind |-> exception, value |-> <<>>, message |-> "", status_code |-> "None",
             url |-> "None", response_text |-> "None", original_exception |-> "None"]
       ELSE Translated(ExceptClauses[clause], exception, answer, request_url)

\* what the network can do with one request
Statuses == {200, 201, 204, 301, 400, 404, 500, 503}
Bodies ==
    { [kind |-> "json", data |-> <<>>],
      [kind |-> "json", data |-> <<"record">>],
      [kind |-> "not json", data |-> <<>>],
      [kind |-> "empty", data |-> <<>>],
      [kind |-> "bad bytes", data |-> <<>>] }
Answers ==
    [transport : {"response"}, status : Statuses, body : Bodies]
        \cup [transport : {"ConnectTimeout", "ReadTimeout", "ConnectError", "ReadError",
                           "RuntimeError"},
              status : {0}, body : {[kind |-> "empty", data |-> <<>>]}]

InitClient ==
    /\ http \in Answers
    /\ fetched = NotFetched
    /\ raw_launches = <<>>
    /\ launchpads = <<>>
    /\ rockets = <<>>
    /\ transformed = <<>>
    /\ launchpad_map = EmptyMap
    /\ rocket_map = EmptyMap
    /\ result = Idle
    /\ seen = NoCall
    /\ returned_object = ""
    /\ ParseIdle
    /\ ServicesIdle
    /\ ToolsIdle

\* SpaceXAPIClient.get_launches / get_rockets / get_launchpads
GetLaunches ==
    /\ fetched.kind = "idle"
    /\ fetched' = request("GET", "/launches", http)
    /\ UNCHANGED <<http, coreVars, parseVars, serviceVars, toolVars>>

GetRockets ==
    /\ fetched.kind = "idle"
    /\ fetched' = request("GET", "/rockets", http)
    /\ UNCHANGED <<http, coreVars, parseVars, serviceVars, toolVars>>

GetLaunchpads ==
    /\ fetched.kind = "idle"
    /\ fetched' = request("GET", "/launchpads", http)
    /\ UNCHANGED <<http, coreVars, parseVars, serviceVars, toolVars>>

NextClient == GetLaunches \/ GetRockets \/ GetLaunchpads

SpecClient == InitClient /\ [][NextClient]_vars

\* ------------------------------------------------------------ the store
\* ReplaceOne({"_id": launch["_id"]}, launch, upsert=True)
\* (variant without upsert: ReplaceOneNoUpsert)
ReplaceOneNoUpsert(launch) ==
    [filter |-> launch["_id"], replacement |-> launch, upsert |-> FALSE]
ReplaceOne(launch) ==
    [filter |-> launch["_id"], replacement |-> launch, upsert |-> TRUE]

\* operations = [ReplaceOne(...) for launch in launches]
Operations(launches) == [i \in DOMAIN launches |-> ReplaceOne(launches[i])]

\* the server applying one operation of the bulk: the documents and the
\* counters of the bulk result
ApplyOperation(state, operation) ==
    LET matched == {d \in state.docs : d["_id"] = operation.filter}
    IN IF matched # {}
       THEN LET old == CHOOSE d \in matched : TRUE
            IN [docs |-> (state.docs \ {old}) \cup {operation.replacement},
                nMatched |-> state.nMatched + 1, nUpserted |-> state.nUpserted]
       ELSE IF operation.upsert
       THEN [docs |-> state.docs \cup {operation.replacement},
             nMatched |-> state.nMatched, nUpserted |-> state.nUpserted + 1]
       ELSE state

\* launches_collection.bulk_write(operations): ordered, operation i from state
RECURSIVE BulkWrite(_, _, _)
BulkWrite(operations, i, state) ==
    IF i > Len(operations) THEN state
    ELSE BulkWrite(operations, i + 1, ApplyOperation(state, operations[i]))

\* store_launches(launches) on the collection `docs`; bulk_write refuses an
\* empty list of operations before it contacts the server, and fails when the
\* server cannot be reached
store_launches(launches, docs, reachable) ==
    LET operations == Operations(launches)
        written == BulkWrite(operations, 1, [docs |-> docs, nMatched |-> 0, nUpserted |-> 0])
    IN IF Len(operations) = 0
       THEN [kind |-> "InvalidOperation", docs |-> docs, count |-> 0]
       ELSE IF ~reachable
       THEN [kind |-> "ServerSelectionTimeoutError", docs |-> docs, count |-> 0]
       ELSE [kind |-> "returned", docs |-> written.docs, count |-> written.nUpserted]

\* the effect of one call on the state
Store(launches, reachable) ==
    LET r == store_launches(launches, collection, reachable)
    IN /\ collection' = r.docs
       /\ stored' = [kind |-> r.kind, count |-> r.count, launches |-> launches,
                     before |-> collection]

\* batches and collections of documents with two fields that matter
MaxBatch == 3
LaunchDoc(id, name) ==
    [key \in OutputKeys |->
        CASE key = "_id" -> id
          [] key = "name" -> name
          [] key = "date_utc" -> NoneDT
          [] OTHER -> None]
BatchDocs == {LaunchDoc(id, name) : id \in {"l1", "l2"}, name \in {"v1", "v2"}}
Batches == UNION {ListsOf(BatchDocs, n) : n \in 0..MaxBatch}
Collections ==
    { {LaunchDoc("l3", "v0")} \cup a \cup b :
        a \in {{}, {LaunchDoc("l1", "v0")}, {LaunchDoc("l1", "v1")}},
        b \in {{}, {LaunchDoc("l2", "v0")}, {LaunchDoc("l2", "v2")}} }

InitStore ==
    /\ collection \in Collections
    /\ batch \in Batches
    /\ stored = NotStored
    /\ raw_launches = <<>>
    /\ launchpads = <<>>
    /\ rockets = <<>>
    /\ transformed = <<>>
    /\ launchpad_map = EmptyMap
    /\ rocket_map = EmptyMap
    /\ result = Idle
    /\ seen = NoCall
    /\ returned_object = ""
    /\ ParseIdle
    /\ ClientIdle
    /\ ToolsIdle
    /\ NotifyIdle
    /\ FlowIdle

StoreLaunches ==
    /\ stored.kind = "idle"
    /\ \E reachable \in BOOLEAN : Store(batch, reachable)
    /\ UNCHANGED <<batch, coreVars, parseVars, clientVars, notifyVars, flowVars, toolVars>>

NextStore == StoreLaunches

SpecStore == InitStore /\ [][NextStore]_vars

\* ------------------------------------------------------------ the notifier
\* a document of the webhooks collection (url ABSENT: no "url" field)
WebhookDoc(id, url) == [_id |-> id, url |-> url]

\* webhooks_collection.find_one({"_id": 1}): the document, or None
NoDocument == [isnone |-> TRUE, doc |-> WebhookDoc("None", ABSENT)]
find_one(docs, id) ==
    IF \E d \in docs : d["_id"] = id
    THEN [isnone |-> FALSE, doc |-> CHOOSE d \in docs : d["_id"] = id]
    ELSE NoDocument

\* if webhook and "url" in webhook
\* (variant that only tests that a document was found: HasDocument)
HasDocument(webhook) == ~webhook.isnone
HasUrl(webhook) == ~webhook.isnone /\ webhook.doc.url # ABSENT

\* httpx.post(webhook["url"], json={"message": message})
Post(url, text) == [url |-> url, json |-> [message |-> text]]

\* httpx.post checks no status: it raises only what the transport raises
PostRaises(answer) == IF answer.transport # "response" THEN answer.transport ELSE "none"

\* the except clauses of notify_webhook, in textual order
NotifyExceptClauses ==
    <<"HTTPStatusError", "TimeoutException", "RequestError", "JSONDecodeError", "Exception">>

ReturnedNone == [kind |-> "returned", value |-> <<>>, message |-> "", status_code |-> "None",
             url |-> "None", response_text |-> "None", original_exception |-> "None"]
Escaped(exception) ==
    [kind |-> exception, value |-> <<>>, message |-> "", status_code |-> "None",
     url |-> "None", response_text |-> "None", original_exception |-> "None"]

\* one attempt of notify_webhook(message) on the webhooks collection `docs`:
\* the POSTs it sends and how it ends
notify_webhook(text, docs, reachable, answer) ==
    IF ~reachable
    THEN [posts |-> <<>>, answer |-> NoAnswer, outcome |-> Escaped("ServerSelectionTimeoutError")]
    ELSE LET webhook == find_one(docs, "1")
         IN IF ~HasUrl(webhook)
            THEN [posts |-> <<>>, answer |-> NoAnswer, outcome |-> ReturnedNone]
            ELSE LET exception == PostRaises(answer)
                     clause == FirstMatch(NotifyExceptClauses, exception)
                 IN [posts |-> <<Post(webhook.doc.url, text)>>,
                     answer |-> answer,
                     outcome |->
                        IF exception = "none" THEN ReturnedNone
                        ELSE IF clause = 0 THEN Escaped(exception)
                        ELSE Translated(NotifyExceptClauses[clause], exception, answer,
                                        webhook.doc.url)]

\* @task(retries=1, retry_delay_seconds=5)
Retries == 1

\* a task run whose attempt raised is attempted again while it has retries left
\* (variant without retries: RetryNever)
RetryNever(attempts) == FALSE
RetryAllowed(attempts) == attempts <= Retries

\* the effect of one attempt on the state
Notify(text, reachable, answer) ==
    LET r == notify_webhook(text, webhooks, reachable, answer)
    IN /\ posts' = posts \o r.posts
       /\ notified' = [attempts |-> notified.attempts + 1,
                       failures |-> notified.failures
                                      + (IF r.outcome.kind = "returned" THEN 0 ELSE 1),
                       sent |-> Len(r.posts), answer |-> r.answer, outcome |-> r.outcome]

\* what the webhook endpoint and the network can do with one POST
PostAnswers ==
    [transport : {"response"}, status : {200, 404, 500},
     body : {[kind |-> "empty", data |-> <<>>]}]
        \cup [transport : {"ConnectTimeout", "ConnectError", "RuntimeError"},
              status : {0}, body : {[kind |-> "empty", data |-> <<>>]}]

WebhookCollections ==
    { {},
      {WebhookDoc("1", ABSENT)},
      {WebhookDoc("1", "http://hook.example/a")},
      {WebhookDoc("2", "http://other.example/b")},
      {WebhookDoc("1", ABSENT), WebhookDoc("2", "http://other.example/b")},
      {WebhookDoc("1", "http://hook.example/a"), WebhookDoc("2", "http://other.example/b")} }
Messages == {"2 new launches!", "1 new launches!"}

InitNotify ==
    /\ webhooks \in WebhookCollections
    /\ message_in \in Messages
    /\ posts = <<>>
    /\ notified = NotNotified
    /\ raw_launches = <<>>
    /\ launchpads = <<>>
    /\ rockets = <<>>
    /\ transformed = <<>>
    /\ launchpad_map = EmptyMap
    /\ rocket_map = EmptyMap
    /\ result = Idle
    /\ seen = NoCall
    /\ returned_object = ""
    /\ ParseIdle
    /\ ClientIdle
    /\ ToolsIdle
    /\ StoreIdle
    /\ FlowIdle

\* the first attempt of the task run
NotifyWebhook ==
    /\ notified.attempts = 0
    /\ \E reachable \in BOOLEAN, answer \in PostAnswers : Notify(message_in, reachable, answer)
    /\ UNCHANGED <<webhooks, message_in, coreVars, parseVars, clientVars, storeVars, flowVars,
                   toolVars>>

\* a further attempt, made after an attempt that raised
NotifyWebhookRetry ==
    /\ notified.attempts >= 1
    /\ notified.outcome.kind # "returned"
    /\ RetryAllowed(notified.attempts)
    /\ \E reachable \in BOOLEAN, answer \in PostAnswers : Notify(message_in, reachable, answer)
    /\ UNCHANGED <<webhooks, message_in, coreVars, parseVars, clientVars, storeVars, flowVars,
                   toolVars>>

NextNotify == NotifyWebhook \/ NotifyWebhookRetry

SpecNotify == InitNotify /\ [][NextNotify]_vars

\* ------------------------------------------------------------- the flow
\* the statements of update_spacex_launches in textual order; flow.step is
\* the one to run next
After(step) ==
    CASE step = "get_launches" -> "get_launchpads"
      [] step = "get_launchpads" -> "get_rockets"
      [] step = "get_rockets" -> "transform_launches"
      [] step = "transform_launches" -> "store_launches"
      [] step = "store_launches" -> "if new_launches > 0"
      [] OTHER -> "completed"

\* a task run that raises ends the flow run
\* (variant that goes on to the next statement all the same: AdvanceAlways)
AdvanceAlways(step, kind) == After(step)
Advance(step, kind) == IF kind = "returned" THEN After(step) ELSE "failed"

\* if new_launches > 0
\* (variant that also notifies for a count of zero: NotNegative)
NotNegative(new_launches) == new_launches >= 0
Positive(new_launches) == new_launches > 0

\* f"{new_launches} new launches!"
NewLaunchesMessage(new_launches) == ToString(new_launches) \o " new launches!"

TaskRun(task, text, kind) ==
    [task |-> task, text |-> text, outcome |-> IF kind = "returned" THEN "returned" ELSE "raised"]

\* what the API answers to one fetch of the flow
FetchFailures ==
    { [transport |-> "response", status |-> 500, body |-> [kind |-> "not json", data |-> <<>>]],
      [transport |-> "ConnectTimeout", status |-> 0, body |-> [kind |-> "empty", data |-> <<>>]] }
FetchAnswers(lists) ==
    {[transport |-> "response", status |-> 200, body |-> [kind |-> "json", data |-> l]] :
        l \in lists} \cup FetchFailures

\* the launches collection before the cycle: empty, or holding what an earlier
\* cycle stored
FlowCollections ==
    { {},
      LET earlier == transform_launches(
                        <<LaunchDict("l2", "Launch Gamma", Str(<<"2023-02-20T12:30:00">>),
                                     ABSENT, "", "r1", ABSENT, "True"),
                          LaunchDict("l1", "Launch Alpha", Str(<<"2023-01-15T10:00:00.000", "Z">>),
                                     ABSENT, "lp1", "r1", ABSENT, "True")>>,
                        <<>>, <<>>, <<>>).value
      IN {earlier[i] : i \in DOMAIN earlier} }

InitFlow ==
    /\ flow = NotStarted
    /\ calls = <<>>
    /\ history = <<>>
    /\ collection \in FlowCollections
    /\ batch = <<>>
    /\ stored = NotStored
    /\ webhooks \in WebhookCollections
    /\ message_in = ""
    /\ posts = <<>>
    /\ notified = NotNotified
    /\ raw_launches = <<>>
    /\ launchpads = <<>>
    /\ rockets = <<>>
    /\ transformed = <<>>
    /\ launchpad_map = EmptyMap
    /\ rocket_map = EmptyMap
    /\ result = Idle
    /\ seen = NoCall
    /\ returned_object = ""
    /\ ParseIdle
    /\ ClientIdle
    /\ ToolsIdle

\* raw_launches = get_launches()
FlowGetLaunches ==
    /\ flow.step = "get_launches"
    /\ \E answer \in FetchAnswers(SomeLaunchLists) :
          /\ http' = answer
          /\ fetched' = request("GET", "/launches", answer)
    /\ flow' = [flow EXCEPT !.raw_launches = fetched'.value,
                            !.step = Advance("get_launches", fetched'.kind)]
    /\ calls' = Append(calls, TaskRun("get_launches", "", fetched'.kind))
    /\ UNCHANGED <<history, coreVars, parseVars, storeVars, notifyVars, toolVars>>

\* launchpads = get_launchpads()
FlowGetLaunchpads ==
    /\ flow.step = "get_launchpads"
    /\ \E answer \in FetchAnswers(SomeLaunchpadLists) :
          /\ http' = answer
          /\ fetched' = request("GET", "/launchpads", answer)
    /\ flow' = [flow EXCEPT !.launchpads = fetched'.value,
                            !.step = Advance("get_launchpads", fetched'.kind)]
    /\ calls' = Append(calls, TaskRun("get_launchpads", "", fetched'.kind))
    /\ UNCHANGED <<history, coreVars, parseVars, storeVars, notifyVars, toolVars>>

\* rockets = get_rockets()
FlowGetRockets ==
    /\ flow.step = "get_rockets"
    /\ \E answer \in FetchAnswers(SomeRocketLists) :
          /\ http' = answer
          /\ fetched' = request("GET", "/rockets", answer)
    /\ flow' = [flow EXCEPT !.rockets = fetched'.value,
                            !.step = Advance("get_rockets", fetched'.kind)]
    /\ calls' = Append(calls, TaskRun("get_rockets", "", fetched'.kind))
    /\ UNCHANGED <<history, coreVars, parseVars, storeVars, notifyVars, toolVars>>

\* launches = transform_launches(raw_launches=..., launchpads=..., rockets=...)
FlowTransform ==
    /\ flow.step = "transform_launches"
    /\ Run(flow.raw_launches, flow.launchpads, flow.rockets)
    /\ flow' = [flow EXCEPT !.launches = result'.value,
                            !.step = Advance("transform_launches", result'.status)]
    /\ calls' = Append(calls, TaskRun("transform_launches", "", result'.status))
    /\ UNCHANGED <<history, seen, parseVars, clientVars, storeVars, notifyVars, toolVars>>

\* new_launches = store_launches(launches)
FlowStore ==
    /\ flow.step = "store_launches"
    /\ \E reachable \in BOOLEAN : Store(flow.launches, reachable)
    /\ batch' = flow.launches
    /\ flow' = [flow EXCEPT !.new_launches = stored'.count,
                            !.step = Advance("store_launches", stored'.kind)]
    /\ calls' = Append(calls, TaskRun("store_launches", "", stored'.kind))
    /\ UNCHANGED <<history, coreVars, parseVars, clientVars, notifyVars, toolVars>>

\* if new_launches > 0: notify_webhook(f"{new_launches} new launches!"), up to
\* the end of the first attempt
FlowNotify ==
    /\ flow.step = "if new_launches > 0"
    /\ Positive(flow.new_launches)
    /\ message_in' = NewLaunchesMessage(flow.new_launches)
    /\ \E reachable \in BOOLEAN, answer \in PostAnswers :
          Notify(message_in', reachable, answer)
    /\ flow' = [flow EXCEPT !.step =
                    IF notified'.outcome.kind # "returned" /\ RetryAllowed(notified'.attempts)
                    THEN "retry notify_webhook"
                    ELSE Advance("if new_launches > 0", notified'.outcome.kind)]
    /\ calls' = Append(calls, TaskRun("notify_webhook", message_in', notified'.outcome.kind))
    /\ UNCHANGED <<history, webhooks, coreVars, parseVars, clientVars, storeVars, toolVars>>

\* a further attempt of the same task run
FlowNotifyRetry ==
    /\ flow.step = "retry notify_webhook"
    /\ \E reachable \in BOOLEAN, answer \in PostAnswers :
          Notify(message_in, reachable, answer)
    /\ flow' = [flow EXCEPT !.step =
                    IF notified'.outcome.kind # "returned" /\ RetryAllowed(notified'.attempts)
                    THEN "retry notify_webhook"
                    ELSE Advance("if new_launches > 0", notified'.outcome.kind)]
    /\ calls' = [calls EXCEPT ![Len(calls)] =
                    TaskRun("notify_webhook", message_in, notified'.outcome.kind)]
    /\ UNCHANGED <<history, webhooks, message_in, coreVars, parseVars, clientVars, storeVars, toolVars>>

\* if new_launches > 0 is false: the flow run ends
FlowSkipNotify ==
    /\ flow.step = "if new_launches > 0"
    /\ ~Positive(flow.new_launches)
    /\ flow' = [flow EXCEPT !.step = "completed"]
    /\ UNCHANGED <<history, calls, coreVars, parseVars, clientVars, storeVars, notifyVars, toolVars>>

NextFlow ==
    \/ FlowGetLaunches
    \/ FlowGetLaunchpads
    \/ FlowGetRockets
    \/ FlowTransform
    \/ FlowStore
    \/ FlowNotify
    \/ FlowNotifyRetry
    \/ FlowSkipNotify

SpecFlow == InitFlow /\ [][NextFlow]_vars

\* update_spacex_launches.serve(interval=...): the next cycle starts after the
\* one before has ended; it is a new flow run on the same collections
MaxCycles == 2
Ended(run, runs, store) ==
    [step |-> run.step, raw_launches |-> run.raw_launches, launchpads |-> run.launchpads,
     rockets |-> run.rockets, fetches |-> Cardinality({i \in DOMAIN runs :
                                                        /\ i <= 3
                                                        /\ runs[i].outcome = "returned"}),
     store |-> store.kind, new_launches |-> store.count]

StartNextCycle ==
    /\ flow.step \in {"completed", "failed"}
    /\ Len(history) + 1 < MaxCycles
    /\ history' = Append(history, Ended(flow, calls, stored))
    /\ flow' = NotStarted
    /\ calls' = <<>>
    /\ batch' = <<>>
    /\ stored' = NotStored
    /\ message_in' = ""
    /\ posts' = <<>>
    /\ notified' = NotNotified
    /\ http' = NoAnswer
    /\ fetched' = NotFetched
    /\ raw_launches' = <<>>
    /\ launchpads' = <<>>
    /\ rockets' = <<>>
    /\ transformed' = <<>>
    /\ launchpad_map' = EmptyMap
    /\ rocket_map' = EmptyMap
    /\ result' = Idle
    /\ returned_object' = ""
    /\ UNCHANGED <<collection, webhooks, seen, parseVars, toolVars>>

InitCycles ==
    /\ InitFlow
    /\ webhooks \in {{}, {WebhookDoc("1", "http://hook.example/a")}}

NextCycles == NextFlow \/ StartNextCycle

SpecCycles == InitCycles /\ [][NextCycles]_vars

\* ------------------------------------------------------ the webhook dialog
\* url.startswith(prefix)
\* (variant that accepts every text: AnyText)
AnyText(text, prefix) == TRUE
startswith(text, prefix) ==
    Len(text) >= Len(prefix) /\ SubSeq(text, 1, Len(prefix)) = prefix

\* webhook_collection.delete_one({"_id": 1})
delete_one(docs, id) ==
    IF \E d \in docs : d["_id"] = id
    THEN docs \ {CHOOSE d \in docs : d["_id"] = id}
    ELSE docs

\* webhook_collection.replace_one({"_id": 1}, {"_id": 1, "url": url}, upsert=True)
replace_one(docs, id, replacement, upsert) ==
    ApplyOperation([docs |-> docs, nMatched |-> 0, nUpserted |-> 0],
                   [filter |-> id, replacement |-> replacement, upsert |-> upsert]).docs

\* the Save branch of webhooks_dialog on the documents of webhook_collection
webhooks_dialog(url, docs) ==
    IF url.isnone \/ ~startswith(url.text, "http://")
    THEN delete_one(docs, "1")
    ELSE replace_one(docs, "1", WebhookDoc("1", url.text), TRUE)

\* what the user can have in the URL input when pressing Save
UrlInputs ==
    {NoUrl} \cup {[isnone |-> FALSE, text |-> t] :
                    t \in {"", "http://hook.example/a", "http://other.example/b",
                           "https://hook.example/a", "hook.example/http://"}}

\* the launches collection with and without a document left by an earlier Save
DialogCollections ==
    { {LaunchDoc("l3", "v0")},
      {LaunchDoc("l3", "v0"), WebhookDoc("1", "http://old.example/c")} }

InitDialog ==
    /\ url_in \in UrlInputs
    /\ dialog = NotSaved
    /\ collection \in DialogCollections
    /\ batch = <<>>
    /\ stored = NotStored
    /\ webhooks \in WebhookCollections
    /\ message_in \in Messages
    /\ posts = <<>>
    /\ notified = NotNotified
    /\ FlowIdle
    /\ raw_launches = <<>>
    /\ launchpads = <<>>
    /\ rockets = <<>>
    /\ transformed = <<>>
    /\ launchpad_map = EmptyMap
    /\ rocket_map = EmptyMap
    /\ result = Idle
    /\ seen = NoCall
    /\ returned_object = ""
    /\ ParseIdle
    /\ ClientIdle
    /\ StatsIdle
    /\ QueryIdle

\* Save pressed: webhook_collection is client[MONGODB_DB_NAME][MONGODB_LAUNCHES_COLLECTION]
SaveWebhook ==
    /\ ~dialog.saved
    /\ collection' = webhooks_dialog(url_in, collection)
    /\ dialog' = [saved |-> TRUE, url |-> url_in, launches_before |-> collection,
                  webhooks_before |-> webhooks, attempts_before |-> notified.attempts]
    /\ UNCHANGED <<url_in, batch, stored, notifyVars, flowVars, coreVars, parseVars, clientVars,
                   statsVars, queryVars>>

NextDialog == SaveWebhook \/ NotifyWebhook \/ NotifyWebhookRetry

SpecDialog == InitDialog /\ [][NextDialog]_vars

\* ------------------------------------------------------------ statistics
\* A frame is its set of columns, the kind of its index (with the month
\* number year * 12 + month - 1 of every row for a DatetimeIndex) and its rows.
NaN == "NaN"

\* pandas.isna
\* (variant for which no value is null: NeverNull)
NeverNull(value) == FALSE
isna(value) == value \in {NaN, None}

\* df.empty: no rows or no columns
empty(df) == Len(df.rows) = 0 \/ df.columns = {}

\* df.groupby(column): the row positions of every non-null key, in row order
RECURSIVE groupby(_, _, _, _)
groupby(df, column, i, groups) ==
    IF i > Len(df.rows) THEN groups
    ELSE LET key == df.rows[i][column]
         IN groupby(df, column, i + 1,
                    IF isna(key) THEN groups
                    ELSE IF key \in DOMAIN groups
                    THEN [groups EXCEPT ![key] = Append(@, i)]
                    ELSE groups @@ (key :> <<i>>))
NoGroups == [key \in {} |-> <<>>]

\* .size(): the number of rows of every group
size(groups) == [key \in DOMAIN groups |-> Len(groups[key])]

\* .mean() of one group of a column: nulls are skipped, True counts 1 and
\* False 0, a text that is no number makes the aggregation raise TypeError
IsNumeric(value) == value \in {"True", "False"}
mean(df, column, positions) ==
    LET valid == {i \in {positions[j] : j \in DOMAIN positions} : ~isna(df.rows[i][column])}
    IN IF \E i \in valid : ~IsNumeric(df.rows[i][column])
       THEN [raised |-> "TypeError", sum |-> 0, count |-> 0]
       ELSE [raised |-> "none",
             sum |-> Cardinality({i \in valid : df.rows[i][column] = "True"}),
             count |-> Cardinality(valid)]

\* round to the nearest integer, a tie to the even one
\* (variant that cuts the fraction off: Truncated)
Truncated(numerator, denominator) == numerator \div denominator
Rounded(numerator, denominator) ==
    LET q == numerator \div denominator
        r == numerator % denominator
    IN IF 2 * r < denominator THEN q
       ELSE IF 2 * r > denominator THEN q + 1
       ELSE IF q % 2 = 0 THEN q ELSE q + 1

\* (mean.astype(float) * 100).round(2), in hundredths of a percent; the mean of
\* a group without a non-null value is NaN
Percent(m) ==
    IF m.count = 0 THEN [isnan |-> TRUE, hundredths |-> 0]
    ELSE [isnan |-> FALSE, hundredths |-> Rounded(10000 * m.sum, m.count)]

\* the clauses of the try statements of stats.py
\* (variant without a clause: NoClauses)
NoClauses == <<>>
StatsExceptClauses == <<"Exception">>

Outcome(fn, arg, exception, type, items) ==
    IF exception = "none" \/ FirstMatch(StatsExceptClauses, exception) # 0
    THEN [fn |-> fn, arg |-> arg, kind |-> "returned", type |-> type,
          items |-> IF exception = "none" THEN items ELSE <<>>]
    ELSE [fn |-> fn, arg |-> arg, kind |-> exception, type |-> "", items |-> <<>>]

\* calculate_rocket_success(launches)
calculate_rocket_success(launches) ==
    IF empty(launches) \/ "rocket_name" \notin launches.columns
          \/ "success" \notin launches.columns
    THEN Outcome("calculate_rocket_success", "", "none", "dict", <<>>)
    ELSE LET groups == groupby(launches, "rocket_name", 1, NoGroups)
             means == [key \in DOMAIN groups |-> mean(launches, "success", groups[key])]
         IN IF \E key \in DOMAIN means : means[key].raised # "none"
            THEN Outcome("calculate_rocket_success", "", "TypeError", "dict", <<>>)
            ELSE Outcome("calculate_rocket_success", "", "none", "dict",
                         [key \in DOMAIN means |-> Percent(means[key])])

\* calculate_group_by_counts(df, group_by_column)
calculate_group_by_counts(df, group_by_column) ==
    [fn |-> "calculate_group_by_counts", arg |-> group_by_column, kind |-> "returned",
     type |-> "dict",
     items |-> IF empty(df) \/ group_by_column \notin df.columns THEN <<>>
               ELSE size(groupby(df, group_by_column, 1, NoGroups))]

\* df.resample(rule=time_bucket).size(): one bucket for every month (year)
\* from the first to the last one of the index, also for those without a row
Bucket(month, time_bucket) == IF time_bucket = "ME" THEN month ELSE month \div 12
resample_size(df, time_bucket) ==
    LET buckets == {Bucket(df.months[i], time_bucket) : i \in DOMAIN df.months}
        first == CHOOSE b \in buckets : \A c \in buckets : b <= c
        last == CHOOSE b \in buckets : \A c \in buckets : b >= c
    IN [b \in first..last |->
          Cardinality({i \in DOMAIN df.months : Bucket(df.months[i], time_bucket) = b})]

\* calculate_time_bucket_counts(df, time_bucket)
calculate_time_bucket_counts(df, time_bucket) ==
    IF empty(df) \/ df.index # "DatetimeIndex"
    THEN Outcome("calculate_time_bucket_counts", time_bucket, "none", "Series[int]", <<>>)
    ELSE IF time_bucket \notin {"ME", "YE"}
    THEN Outcome("calculate_time_bucket_counts", time_bucket, "ValueError", "Series[int]", <<>>)
    ELSE Outcome("calculate_time_bucket_counts", time_bucket, "none", "Series[int]",
                 resample_size(df, time_bucket))

\* the frames: every frame of up to MaxRows launches, and some further ones
MaxRows == 3
LaunchRows == [rocket_name : {"Falcon 9", "Falcon Heavy", NaN}, success : {"True", "False", NaN}]
Frame(columns, index, months, rows) ==
    [columns |-> columns, index |-> index, months |-> months, rows |-> rows]
SomeFrames ==
    { Frame({}, "RangeIndex", <<>>, <<>>),
      Frame({"rocket_name", "success"}, "DatetimeIndex", <<>>, <<>>),
      Frame({"success"}, "RangeIndex", <<>>, <<[rocket_name |-> ABSENT, success |-> "True"]>>),
      Frame({"rocket_name"}, "RangeIndex", <<>>,
            <<[rocket_name |-> "Falcon 9", success |-> ABSENT]>>),
      Frame({"rocket_name", "success"}, "RangeIndex", <<>>,
            <<[rocket_name |-> "Delta IV", success |-> "Succeeded"],
              [rocket_name |-> "Delta IV", success |-> "Failed"]>>),
      Frame({"rocket_name", "success"}, "RangeIndex", <<>>,
            <<[rocket_name |-> "Falcon 9", success |-> "True"],
              [rocket_name |-> "Delta IV", success |-> "Succeeded"]>>),
      Frame({"rocket_name", "success"}, "RangeIndex", <<>>,
            [i \in 1..6 |-> [rocket_name |-> "RocketB",
                             success |-> IF i = 1 THEN "True" ELSE "False"]]),
      Frame({"rocket_name", "success"}, "DatetimeIndex", <<24276>>,
            <<[rocket_name |-> "Falcon 9", success |-> "True"]>>),
      Frame({"rocket_name", "success"}, "DatetimeIndex", <<24276, 24279, 24276, 24292>>,
            [i \in 1..4 |-> [rocket_name |-> "Falcon 9", success |-> "True"]]) }
Frames ==
    SomeFrames \cup
    {Frame({"rocket_name", "success"}, "RangeIndex", <<>>, rows) :
        rows \in UNION {ListsOf(LaunchRows, n) : n \in 0..MaxRows}}

InitStats ==
    /\ frame \in Frames
    /\ computed = NotComputed
    /\ UiIdle
    /\ QueryIdle
    /\ raw_launches = <<>>
    /\ launchpads = <<>>
    /\ rockets = <<>>
    /\ transformed = <<>>
    /\ launchpad_map = EmptyMap
    /\ rocket_map = EmptyMap
    /\ result = Idle
    /\ seen = NoCall
    /\ returned_object = ""
    /\ ParseIdle
    /\ ClientIdle
    /\ ServicesIdle

CalculateRocketSuccess ==
    /\ computed.fn = "idle"
    /\ computed' = calculate_rocket_success(frame)
    /\ UNCHANGED <<frame, uiVars, queryVars, coreVars, parseVars, clientVars, serviceVars>>

CalculateGroupByCounts ==
    /\ computed.fn = "idle"
    /\ \E group_by_column \in {"rocket_name", "success", "launchpad_name"} :
          computed' = calculate_group_by_counts(frame, group_by_column)
    /\ UNCHANGED <<frame, uiVars, queryVars, coreVars, parseVars, clientVars, serviceVars>>

CalculateTimeBucketCounts ==
    /\ computed.fn = "idle"
    /\ \E time_bucket \in {"ME", "YE", "fortnight"} :
          computed' = calculate_time_bucket_counts(frame, time_bucket)
    /\ UNCHANGED <<frame, uiVars, queryVars, coreVars, parseVars, clientVars, serviceVars>>

NextStats == CalculateRocketSuccess \/ CalculateGroupByCounts \/ CalculateTimeBucketCounts

SpecStats == InitStats /\ [][NextStats]_vars

\* ------------------------------------------------------ the filter query
\* A date is its day number; a datetime is a day with a time of day.
\* datetime.combine(day, time.min) and datetime.combine(day, time.max)
combine(value, time) == [day |-> value.day, time |-> time]
time_min == "00:00:00"
time_max == "23:59:59.999999"

\* if selected_rockets: a list that is neither None nor empty
\* (variant that asks only for a list: IsList)
IsList(selection) == ~selection.isnone
Selected(selection) == ~selection.isnone /\ Len(selection.items) > 0

\* build_query(start_date_val, end_date_val, selected_rockets, selected_status,
\* selected_sites)
build_query(start_date_val, end_date_val, selected_rockets, selected_status, selected_sites) ==
    LET dated == start_date_val.isdate /\ end_date_val.isdate
        status == selected_status \in {"Upcoming/TBD", "Successful", "Failed"}
    IN [built |-> TRUE,
        keys |-> (IF dated THEN {"date_utc"} ELSE {})
                    \cup (IF Selected(selected_rockets) THEN {"rocket_name"} ELSE {})
                    \cup (IF status THEN {"success"} ELSE {})
                    \cup (IF Selected(selected_sites) THEN {"launchpad_name"} ELSE {}),
        gte |-> IF dated THEN combine(start_date_val, time_min) ELSE NoDatetime,
        lte |-> IF dated THEN combine(end_date_val, time_max) ELSE NoDatetime,
        rocket_name |-> IF Selected(selected_rockets) THEN selected_rockets.items ELSE <<>>,
        success |-> CASE selected_status = "Upcoming/TBD" -> None
                      [] selected_status = "Successful" -> "True"
                      [] selected_status = "Failed" -> "False"
                      [] OTHER -> None,
        launchpad_name |-> IF Selected(selected_sites) THEN selected_sites.items ELSE <<>>]

\* the selections of the sidebar
Dates == {NoDate, [isdate |-> TRUE, day |-> 19372], [isdate |-> TRUE, day |-> 19400]}
Selections(names) == {NoSelection} \cup {[isnone |-> FALSE, items |-> l] : l \in names}
StatusOptions == {"All", "Successful", "Failed", "Upcoming/TBD", None}

InitQuery ==
    /\ filters \in [start_date_val : Dates, end_date_val : Dates,
                     selected_rockets : Selections({<<>>, <<"Falcon 9">>,
                                                   <<"Falcon 9", "Falcon Heavy">>}),
                     selected_status : StatusOptions,
                     selected_sites : Selections({<<>>, <<"Pad A">>})]
    /\ mongo_query = NotBuilt
    /\ UiIdle
    /\ StatsIdle
    /\ raw_launches = <<>>
    /\ launchpads = <<>>
    /\ rockets = <<>>
    /\ transformed = <<>>
    /\ launchpad_map = EmptyMap
    /\ rocket_map = EmptyMap
    /\ result = Idle
    /\ seen = NoCall
    /\ returned_object = ""
    /\ ParseIdle
    /\ ClientIdle
    /\ ServicesIdle

BuildQuery ==
    /\ ~mongo_query.built
    /\ mongo_query' = build_query(filters.start_date_val, filters.end_date_val,
                                  filters.selected_rockets, filters.selected_status,
                                  filters.selected_sites)
    /\ UNCHANGED <<filters, uiVars, statsVars, coreVars, parseVars, clientVars, serviceVars>>

NextQuery == BuildQuery

SpecQuery == InitQuery /\ [][NextQuery]_vars

\* =================================================================== claims
\* vocabulary of the claims, stated without the operators of the model
Called == result.status # "idle"
Returned == result.status = "returned"
Raised == result.status = "raised"

OrNone(v) == IF v = ABSENT THEN None ELSE v
IsMapping(e) == e.isdict
\* the mapping-typed elements of the input, in input order
Mappings == SelectSeq(raw_launches, IsMapping)

WellFormed(r) == r.isdict /\ r.id # ABSENT
\* the last well-formed record of refs whose id is k
LastWith(refs, k) ==
    refs[CHOOSE i \in DOMAIN refs :
            /\ WellFormed(refs[i]) /\ refs[i].id = k
            /\ \A j \in DOMAIN refs : j > i => ~(WellFormed(refs[j]) /\ refs[j].id = k)]
LaunchpadIndexBuilt == Called /\ result.site # "launchpad_map"
RocketIndexBuilt == Called /\ result.site \notin {"launchpad_map", "rocket_map"}

\* C1: transform_launches raises no exception, whatever the three lists hold.
\* Violated: an unhashable id (a list) in a reference record or as a launch's
\* foreign key raises TypeError.
C1_NeverRaises == ~Raised

\* C2: for every non-empty raw launch list, a call that returns yields as many
\* records as the input has mapping-typed elements.
C2_CountPreserved ==
    (Returned /\ raw_launches # <<>>) =>
        Len(result.value) = Cardinality({i \in DOMAIN raw_launches : raw_launches[i].isdict})

C2_Witness ==
    /\ Returned
    /\ Len(raw_launches) = 3
    /\ ~raw_launches[2].isdict
    /\ raw_launches[1].isdict /\ raw_launches[3].isdict
    /\ Len(result.value) = 2

\* C3: every returned record has exactly the eleven keys, and a value missing
\* from the launch is an explicit None under its key.
C3_ElevenKeys ==
    Returned =>
        \A i \in DOMAIN result.value :
            /\ DOMAIN result.value[i] =
                  {"_id", "name", "date_utc", "details", "launchpad_id", "launchpad_name",
                   "launchpad_fullname", "rocket_id", "rocket_name", "success", "upcoming"}
            /\ Mappings[i].id = ABSENT => result.value[i]["_id"] = None
            /\ Mappings[i].name = ABSENT => result.value[i]["name"] = None
            /\ Mappings[i].date_utc.v = ABSENT => result.value[i]["date_utc"] = NoneDT
            /\ Mappings[i].details = ABSENT => result.value[i]["details"] = None
            /\ Mappings[i].success = ABSENT => result.value[i]["success"] = None
            /\ Mappings[i].upcoming = ABSENT => result.value[i]["upcoming"] = None
            /\ Mappings[i].launchpad = ABSENT =>
                  /\ result.value[i]["launchpad_id"] = None
                  /\ result.value[i]["launchpad_name"] = None
                  /\ result.value[i]["launchpad_fullname"] = None
            /\ Mappings[i].rocket = ABSENT =>
                  /\ result.value[i]["rocket_id"] = None
                  /\ result.value[i]["rocket_name"] = None

C3_Witness ==
    /\ Returned
    /\ \E i \in DOMAIN result.value :
          /\ Mappings[i].id = ABSENT /\ Mappings[i].rocket = ABSENT
          /\ result.value[i]["_id"] = None /\ result.value[i]["rocket_name"] = None

\* C4 as claimed: a reference is resolved iff the foreign key is present,
\* non-null and a key of the index; resolved fields equal the indexed record's
\* values, unresolved ones are None.
\* Violated: a non-null but falsy key (the empty string) that is a key of the
\* index is not looked up, and its fields are None.
ClaimedResolved(fk, index) == fk \notin {ABSENT, None} /\ fk \in DOMAIN index
C4_ResolvedIffPresentNonNullIndexed ==
    Returned =>
        \A i \in DOMAIN result.value :
            /\ IF ClaimedResolved(Mappings[i].launchpad, launchpad_map)
               THEN /\ result.value[i]["launchpad_name"] =
                          OrNone(launchpad_map[Mappings[i].launchpad].name)
                    /\ result.value[i]["launchpad_fullname"] =
                          OrNone(launchpad_map[Mappings[i].launchpad].full_name)
               ELSE /\ result.value[i]["launchpad_name"] = None
                    /\ result.value[i]["launchpad_fullname"] = None
            /\ IF ClaimedResolved(Mappings[i].rocket, rocket_map)
               THEN result.value[i]["rocket_name"] = OrNone(rocket_map[Mappings[i].rocket].name)
               ELSE result.value[i]["rocket_name"] = None

\* C5: the fields _id, name, details, success, upcoming, launchpad_id and
\* rocket_id of every returned record are the launch's own values (None for a
\* missing key), whether or not the foreign keys resolve.
C5_PassThrough ==
    Returned =>
        \A i \in DOMAIN result.value :
            /\ result.value[i]["_id"] = OrNone(Mappings[i].id)
            /\ result.value[i]["name"] = OrNone(Mappings[i].name)
            /\ result.value[i]["details"] = OrNone(Mappings[i].details)
            /\ result.value[i]["success"] = OrNone(Mappings[i].success)
            /\ result.value[i]["upcoming"] = OrNone(Mappings[i].upcoming)
            /\ result.value[i]["launchpad_id"] = OrNone(Mappings[i].launchpad)
            /\ result.value[i]["rocket_id"] = OrNone(Mappings[i].rocket)

C5_Witness ==
    /\ Returned
    /\ \E i \in DOMAIN result.value :
          /\ Mappings[i].launchpad = "lp2"
          /\ "lp2" \notin DOMAIN launchpad_map
          /\ launchpads # <<>>
          /\ result.value[i]["launchpad_id"] = "lp2"
          /\ result.value[i]["launchpad_name"] = None


\* C6: a call that returns yields the element-wise transform of the
\* mapping-typed elements in input order; nothing is reordered or merged, also
\* when two launches have the same id.
C6_OrderKept ==
    Returned =>
        /\ Len(result.value) = Len(Mappings)
        /\ \A i \in DOMAIN result.value :
              result.value[i] =
                  Enriched(Mappings[i],
                           Lookup(launchpad_map, get(Mappings[i], "launchpad")),
                           Lookup(rocket_map, get(Mappings[i], "rocket")))

C6_Witness ==
    /\ Returned
    /\ Len(result.value) = 2
    /\ result.value[1]["_id"] = "l1" /\ result.value[2]["_id"] = "l1"
    /\ result.value[1]["name"] = "Launch Beta" /\ result.value[2]["name"] = "Launch Alpha"

Malformed(r) == ~r.isdict \/ r.id = ABSENT
C8_MalformedLeftOut ==
    /\ (Called /\ \A i \in DOMAIN launchpads : Malformed(launchpads[i]))
          => (result.site # "launchpad_map" /\ launchpad_map = EmptyMap)
    /\ (Called /\ \A i \in DOMAIN rockets : Malformed(rockets[i]))
          => (result.site # "rocket_map" /\ rocket_map = EmptyMap)
    /\ LaunchpadIndexBuilt =>
          /\ \A k \in DOMAIN launchpad_map :
                ~Malformed(launchpad_map[k]) /\ launchpad_map[k].id = k
          /\ \A i \in DOMAIN launchpads :
                ~Malformed(launchpads[i]) => launchpads[i].id \in DOMAIN launchpad_map
    /\ RocketIndexBuilt =>
          /\ \A k \in DOMAIN rocket_map :
                ~Malformed(rocket_map[k]) /\ rocket_map[k].id = k
          /\ \A i \in DOMAIN rockets :
                ~Malformed(rockets[i]) => rockets[i].id \in DOMAIN rocket_map
    /\ Returned =>
          \A o \in DOMAIN result.value :
              /\ result.value[o]["launchpad_name"] # None =>
                    \E i \in DOMAIN launchpads :
                        /\ ~Malformed(launchpads[i])
                        /\ launchpads[i].name = result.value[o]["launchpad_name"]
              /\ result.value[o]["rocket_name"] # None =>
                    \E i \in DOMAIN rockets :
                        /\ ~Malformed(rockets[i])
                        /\ rockets[i].name = result.value[o]["rocket_name"]

C8_Witness ==
    /\ Returned
    /\ Len(launchpads) = 3
    /\ launchpads[1] = RefDict("lp1", "Pad A", "Launch Complex A")
    /\ launchpads[2] = RefNonDict("None")
    /\ launchpads[3] = RefDict(ABSENT, "Pad C", "Launch Complex C")
    /\ DOMAIN launchpad_map = {"lp1"}
    /\ \E o \in DOMAIN result.value : result.value[o]["launchpad_name"] = "Pad A"

\* C9 as claimed: with an empty raw launch list the call returns the empty
\* list for every launchpad list and every rocket list.
\* Violated: the indexes are built before the emptiness test, and a reference
\* record with an unhashable id raises TypeError there.
C9_EmptyInEmptyOut ==
    (Called /\ raw_launches = <<>>) => (Returned /\ result.value = <<>>)

ArgumentObjects == {"raw_launches", "launchpads", "rockets"}
OffsetTokens == {"Z", "+00:00", "+01:00"}
HasNoOffset(toks) == \A i \in DOMAIN toks : toks[i] \notin OffsetTokens
\* a date-time text the normalizer is specified to accept: a valid date-time,
\* alone or followed by exactly one of Z and a numeric offset
Parseable(d) ==
    /\ d.isstr
    /\ Len(d.toks) \in {1, 2}
    /\ d.toks[1] \in {"2023-01-15T10:00:00.000", "2023-02-20T12:30:00"}
    /\ Len(d.toks) = 2 => d.toks[2] \in OffsetTokens

\* C12: for every text without a timezone offset, the text followed by Z and
\* the text followed by +00:00 normalize to the same result, and
\* "2023-01-15T10:00:00.000Z" gives 2023-01-15 10:00:00 at UTC.
C12_ZuluIsUtcOffset ==
    (parsed.done /\ date_in.isstr /\ HasNoOffset(date_in.toks)) =>
        /\ parsed_z.done /\ parsed_utc.done
        /\ parsed_z.raised = parsed_utc.raised
        /\ parsed_z.value = parsed_utc.value
        /\ date_in.toks = <<"2023-01-15T10:00:00.000">> =>
              parsed_z.value = [isnone |-> FALSE, body |-> "2023-01-15T10:00:00", tz |-> "+00:00"]

C12_Witness ==
    /\ parsed.done
    /\ date_in = Str(<<"2023-02-20T12:30:00">>)
    /\ ~parsed_z.value.isnone
    /\ parsed_z.value.tz = "+00:00"
    /\ parsed_utc.value = parsed_z.value

\* C13: the normalizer never raises; it returns None for every value that is
\* not a text and for every text that cannot be parsed, and the launch that
\* carries such a value is still emitted, with date_utc None.
C13_NeverRaisesNoneOnFailure ==
    /\ parsed.done =>
          /\ parsed.raised = "none"
          /\ ~Parseable(date_in) => parsed.value = NoneDT
    /\ parsed_z.done => parsed_z.raised = "none"
    /\ parsed_utc.done => parsed_utc.raised = "none"
    /\ Called =>
          /\ Returned
          /\ Len(result.value) = 1
          /\ ~Parseable(date_in) => result.value[1]["date_utc"] = NoneDT

C13_Witness ==
    /\ parsed.done
    /\ date_in = Str(<<"2023-01-15T10:00:00.000", "+01:00", "Z">>)
    /\ parsed.value = NoneDT
    /\ Returned
    /\ result.value[1]["date_utc"] = NoneDT

\* C14 as claimed: every result other than None is timezone-aware, at UTC for
\* a Z-suffixed text and at the text's own offset otherwise.
\* Violated: a valid date-time text without any offset gives a naive datetime.
C14_AlwaysTimezoneAware ==
    (parsed.done /\ ~parsed.value.isnone) =>
        /\ parsed.value.tz \in {"+00:00", "+01:00"}
        /\ date_in.toks[Len(date_in.toks)] = "Z" => parsed.value.tz = "+00:00"
        /\ date_in.toks[Len(date_in.toks)] \in {"+00:00", "+01:00"} =>
              parsed.value.tz = date_in.toks[Len(date_in.toks)]


\* C15: a launch in which an optional key is absent and the same launch in
\* which that key is present with a null value give equal output records.
\* b is a with the null scalar key k deleted
SameButAbsent(a, b, k) ==
    /\ b[k] = "None" /\ a[k] = "<absent>"
    /\ \A j \in {"id", "name", "details", "launchpad", "rocket", "success", "upcoming"} \ {k} :
          a[j] = b[j]
    /\ a.date_utc = b.date_utc
SameButDateAbsent(a, b) ==
    /\ ~a.date_utc.isstr /\ ~b.date_utc.isstr
    /\ b.date_utc.v = "None" /\ a.date_utc.v = "<absent>"
    /\ \A j \in {"id", "name", "details", "launchpad", "rocket", "success", "upcoming"} :
          a[j] = b[j]
C15_AbsentEqualsNull ==
    (/\ Returned
     /\ Len(raw_launches) = 2
     /\ raw_launches[1].isdict /\ raw_launches[2].isdict
     /\ \/ SameButDateAbsent(raw_launches[1], raw_launches[2])
        \/ \E k \in {"id", "name", "details", "launchpad", "rocket", "success", "upcoming"} :
              SameButAbsent(raw_launches[1], raw_launches[2], k))
        => /\ Len(result.value) = 2
           /\ result.value[1] = result.value[2]

C15_Witness ==
    /\ Returned
    /\ raw_launches[1].launchpad = "<absent>"
    /\ raw_launches[2].launchpad = "None"
    /\ raw_launches[1].id = "l1" /\ raw_launches[1].rocket = "r1"
    /\ Len(result.value) = 2
    /\ result.value[1]["rocket_name"] = "Rocket X"
    /\ result.value[1]["launchpad_id"] = "None"
    /\ result.value[1] = result.value[2]


\* C16: _request returns the decoded body or raises ExternalAPIException; a
\* non-2xx status, a timeout, a network failure and a body that does not
\* decode each give an ExternalAPIException with the request URL and the
\* underlying exception (and the status code and response text for a non-2xx
\* status); nothing else escapes.
RequestUrls == {"https://api.spacexdata.com/v4/launches",
                "https://api.spacexdata.com/v4/rockets",
                "https://api.spacexdata.com/v4/launchpads"}
C16_ReturnsOrExternalAPIException ==
    fetched.kind # "idle" =>
        /\ fetched.kind \in {"returned", "ExternalAPIException"}
        /\ fetched.kind = "returned" <=>
              (http.transport = "response" /\ http.status \in 200..299
                  /\ http.body.kind = "json")
        /\ fetched.kind = "returned" => fetched.value = http.body.data
        /\ fetched.kind = "ExternalAPIException" =>
              /\ fetched.url \in RequestUrls
              /\ fetched.original_exception # "None"
        /\ (http.transport = "response" /\ http.status \notin 200..299) =>
              /\ fetched.original_exception = "HTTPStatusError"
              /\ fetched.status_code = ToString(http.status)
              /\ fetched.response_text = http.body.kind
        /\ http.transport \in {"ConnectTimeout", "ReadTimeout", "ConnectError", "ReadError",
                               "RuntimeError"} =>
              fetched.original_exception = http.transport
        /\ (http.transport = "response" /\ http.status \in 200..299
               /\ http.body.kind # "json") =>
              fetched.original_exception \in {"JSONDecodeError", "UnicodeDecodeError"}

C16_Witness ==
    /\ fetched.kind = "ExternalAPIException"
    /\ http.transport = "response" /\ http.status = 200 /\ http.body.kind = "bad bytes"
    /\ fetched.url = "https://api.spacexdata.com/v4/rockets"
    /\ fetched.original_exception = "UnicodeDecodeError"


\* C17: after a store_launches(batch) that returns, the collection holds
\* exactly one document for every _id of the batch, equal to the last batch
\* record with that _id; the documents with other _ids are the ones that were
\* there before; and the count is the number of batch _ids that were not in
\* the collection before the call.
IdsOf(records) == {records[i]["_id"] : i \in DOMAIN records}
IdsIn(docs) == {d["_id"] : d \in docs}
LastRecordWith(records, id) ==
    records[CHOOSE i \in DOMAIN records :
                /\ records[i]["_id"] = id
                /\ \A j \in (i + 1)..Len(records) : records[j]["_id"] # id]
ConfiguredUrls == {d.url : d \in {w \in webhooks : w["_id"] = "1" /\ w.url # ABSENT}}
LookupAnswered == notified.attempts > 0 /\ notified.outcome.kind # "ServerSelectionTimeoutError"
C20_PostsOnlyToConfiguredUrl ==
    /\ Len(posts) <= notified.attempts
    /\ LookupAnswered =>
          IF ConfiguredUrls = {}
          THEN notified.sent = 0 /\ notified.outcome.kind = "returned"
          ELSE /\ notified.sent = 1
               /\ posts[Len(posts)].url \in ConfiguredUrls
               /\ posts[Len(posts)].json = [message |-> message_in]

C20_Witness ==
    /\ notified.attempts = 2
    /\ Len(posts) = 2
    /\ posts[1] = posts[2]
    /\ posts[2] = [url |-> "http://hook.example/a", json |-> [message |-> "2 new launches!"]]
    /\ notified.outcome.kind = "returned"


\* C18: in a cycle notify_webhook is invoked exactly when store_launches
\* returned a count greater than zero, then once, with the message
\* "<count> new launches!" for that count; a cycle whose count is zero sends
\* no notification.
NotifyRuns == {i \in DOMAIN calls : calls[i].task = "notify_webhook"}
PastTheTest == flow.step \notin {"store_launches", "if new_launches > 0"}
CountText(n) ==
    CASE n = 1 -> "1 new launches!"
      [] n = 2 -> "2 new launches!"
      [] n = 3 -> "3 new launches!"
      [] OTHER -> "some new launches!"
C18_NotifiesIffNewLaunches ==
    /\ NotifyRuns # {} <=> (stored.kind = "returned" /\ stored.count > 0 /\ PastTheTest)
    /\ Cardinality(NotifyRuns) <= 1
    /\ \A i \in NotifyRuns : calls[i].text = CountText(stored.count)
    /\ \A i \in DOMAIN posts : posts[i].json = [message |-> CountText(stored.count)]
    /\ (stored.kind = "returned" /\ stored.count = 0) => (posts = <<>> /\ notified.attempts = 0)
    /\ notified.attempts > 0 <=> NotifyRuns # {}

C18_Witness ==
    /\ flow.step = "completed"
    /\ stored.count = 2
    /\ Cardinality(NotifyRuns) = 1
    /\ posts = <<[url |-> "http://hook.example/a", json |-> [message |-> "2 new launches!"]]>>

\* C19: a cycle runs get_launches, get_launchpads, get_rockets,
\* transform_launches, store_launches and the conditional notify_webhook in
\* that order; transform_launches runs once, after the three fetches returned;
\* store_launches gets what transform_launches returned; notify_webhook runs
\* after store_launches returned; after a task run that raised, no further
\* task runs.
CycleOrder == <<"get_launches", "get_launchpads", "get_rockets", "transform_launches",
                "store_launches", "notify_webhook">>
C19_StrictOrderStopOnFailure ==
    /\ Len(calls) <= Len(CycleOrder)
    /\ \A i \in DOMAIN calls : calls[i].task = CycleOrder[i]
    /\ \A i \in DOMAIN calls : calls[i].outcome = "raised" => i = Len(calls)
    /\ result.status # "idle" <=> Len(calls) >= 4
    /\ result.status # "idle" =>
          /\ raw_launches = flow.raw_launches
          /\ launchpads = flow.launchpads
          /\ rockets = flow.rockets
    /\ stored.kind # "idle" <=> Len(calls) >= 5
    /\ stored.kind # "idle" => (result.status = "returned" /\ stored.launches = result.value)
    /\ notified.attempts > 0 => (Len(calls) = 6 /\ stored.kind = "returned")
    /\ flow.step = "failed" <=> (calls # <<>> /\ calls[Len(calls)].outcome = "raised"
                                    /\ flow.step # "retry notify_webhook")
    /\ flow.step = "completed" => Len(calls) >= 5

C19_Witness ==
    /\ flow.step = "failed"
    /\ Len(calls) = 5
    /\ calls[5].outcome = "raised"
    /\ stored.kind = "ServerSelectionTimeoutError"
    /\ Len(stored.launches) = 2
    /\ stored.launches = result.value
    /\ posts = <<>>


\* C21 as claimed: an attempt of notify_webhook whose POST fails raises
\* ExternalAPIException: for an answer with a non-2xx status (the exception
\* then carries the status code and the response text), for a timeout and
\* for a request error.
\* Violated: httpx.post does not check the status, so an attempt answered
\* with 404 or 500 returns normally.
C21_RaisesWhenPostFails ==
    (notified.attempts > 0 /\ notified.sent = 1) =>
        /\ (notified.answer.transport = "response" /\ notified.answer.status \notin 200..299) =>
              /\ notified.outcome.kind = "ExternalAPIException"
              /\ notified.outcome.status_code = ToString(notified.answer.status)
              /\ notified.outcome.response_text = notified.answer.body.kind
        /\ notified.answer.transport \in {"ConnectTimeout", "ConnectError"} =>
              /\ notified.outcome.kind = "ExternalAPIException"
              /\ notified.outcome.original_exception = notified.answer.transport


\* C22 as claimed: Save writes the URL to (or deletes it from) the webhooks
\* collection that notify_webhook reads, so an attempt of notify_webhook made
\* after a Save of an accepted URL posts to that URL, and Save never changes
\* the launches collection.  The accepted URLs of the inputs are listed.
\* Violated: the dialog works on the launches collection.
AcceptedUrls == {"http://hook.example/a", "http://other.example/b"}
SavedAccepted == dialog.saved /\ ~dialog.url.isnone /\ dialog.url.text \in AcceptedUrls
WebhookDocuments(docs) == {d \in docs : d["_id"] = "1"}
C22_SavedUrlReachesNotifier ==
    dialog.saved =>
        /\ collection = dialog.launches_before
        /\ WebhookDocuments(webhooks) =
              IF SavedAccepted THEN {[_id |-> "1", url |-> dialog.url.text]} ELSE {}
        /\ (SavedAccepted /\ notified.attempts > dialog.attempts_before
               /\ notified.outcome.kind # "ServerSelectionTimeoutError") =>
              /\ notified.sent = 1
              /\ posts[Len(posts)].url = dialog.url.text

\* C30: after Save the dialog's collection holds at most one document with
\* _id 1: {_id: 1, url} when the URL in the input starts with "http://", and
\* none when the input is missing or has any other text; the other documents
\* of the collection are the ones that were there.
C30_SaveDecidesByPrefix ==
    dialog.saved =>
        /\ WebhookDocuments(collection) =
              IF SavedAccepted THEN {[_id |-> "1", url |-> dialog.url.text]} ELSE {}
        /\ collection \ WebhookDocuments(collection)
              = dialog.launches_before \ WebhookDocuments(dialog.launches_before)

C30_Witness ==
    /\ dialog.saved
    /\ dialog.url = [isnone |-> FALSE, text |-> "https://hook.example/a"]
    /\ WebhookDocuments(dialog.launches_before) # {}
    /\ WebhookDocuments(collection) = {}


\* C23: in a cycle transform_launches and store_launches run at most once
\* each, and a raise of either ends the cycle at once; notify_webhook is
\* attempted at most twice, a second attempt follows only a first one that
\* raised, and the cycle fails on notify_webhook only after both attempts
\* raised.
RunsOf(task) == {i \in DOMAIN calls : calls[i].task = task}
C23_OnlyNotifyIsRetried ==
    /\ Cardinality(RunsOf("transform_launches")) <= 1
    /\ Cardinality(RunsOf("store_launches")) <= 1
    /\ result.status = "raised" => (flow.step = "failed" /\ Len(calls) = 4)
    /\ stored.kind \notin {"idle", "returned"} => (flow.step = "failed" /\ Len(calls) = 5)
    /\ notified.attempts <= 2
    /\ notified.attempts = 2 => notified.failures >= 1
    /\ (notified.attempts = 1 /\ notified.failures = 1) => flow.step = "retry notify_webhook"
    /\ (flow.step = "failed" /\ RunsOf("notify_webhook") # {}) =>
          (notified.attempts = 2 /\ notified.failures = 2)
    /\ (flow.step = "completed" /\ RunsOf("notify_webhook") # {}) =>
          notified.failures = notified.attempts - 1

C23_Witness ==
    /\ flow.step = "failed"
    /\ RunsOf("notify_webhook") # {}
    /\ notified.attempts = 2
    /\ notified.failures = 2
    /\ Len(posts) = 2


\* C24: for a frame that is not empty and has the column,
\* calculate_group_by_counts maps every distinct non-null value of the column
\* to the number of rows holding it: the keys are those values, a row with a
\* null value is counted under no key, and the counts add up to the number of
\* rows with a non-null value.
Positions == DOMAIN frame.rows
NonNull(column) == {i \in Positions : frame.rows[i][column] \notin {"NaN", "None"}}
RECURSIVE SumOf(_, _)
SumOf(counts, keys) ==
    IF keys = {} THEN 0
    ELSE LET k == CHOOSE x \in keys : TRUE
         IN counts[k] + SumOf(counts, keys \ {k})
C24_CountsPerDistinctValue ==
    (computed.fn = "calculate_group_by_counts" /\ frame.rows # <<>>
        /\ computed.arg \in frame.columns) =>
        /\ computed.kind = "returned"
        /\ DOMAIN computed.items = {frame.rows[i][computed.arg] : i \in NonNull(computed.arg)}
        /\ \A k \in DOMAIN computed.items :
              computed.items[k]
                 = Cardinality({i \in Positions : frame.rows[i][computed.arg] = k})
        /\ SumOf(computed.items, DOMAIN computed.items) = Cardinality(NonNull(computed.arg))

C24_Witness ==
    /\ computed.fn = "calculate_group_by_counts"
    /\ computed.arg = "rocket_name"
    /\ Len(frame.rows) = 3
    /\ Cardinality(NonNull("rocket_name")) = 2
    /\ DOMAIN computed.items = {"Falcon 9"}
    /\ computed.items["Falcon 9"] = 2

\* C25: for a usable frame calculate_rocket_success has one entry for every
\* distinct non-null rocket name, and none for a null name; the rate of a
\* rocket with launches of non-null success is 100 times its successes
\* divided by the number of those launches, to the nearest hundredth (2 of 3
\* gives 66.67, 1 of 6 gives 16.67).
Usable ==
    /\ frame.rows # <<>>
    /\ {"rocket_name", "success"} \subseteq frame.columns
    /\ \A i \in Positions : frame.rows[i].success \in {"True", "False", "NaN", "None"}
Judged(name) == {i \in NonNull("success") : frame.rows[i].rocket_name = name}
Successes(name) == {i \in Judged(name) : frame.rows[i].success = "True"}
Distance(a, b) == IF a >= b THEN a - b ELSE b - a
C25_SuccessRatePerRocket ==
    (computed.fn = "calculate_rocket_success" /\ Usable) =>
        /\ computed.kind = "returned"
        /\ DOMAIN computed.items = {frame.rows[i].rocket_name : i \in NonNull("rocket_name")}
        /\ \A name \in DOMAIN computed.items :
              LET n == Cardinality(Judged(name))
                  k == Cardinality(Successes(name))
                  rate == computed.items[name]
              IN n > 0 =>
                    /\ ~rate.isnan
                    /\ 2 * Distance(rate.hundredths * n, 10000 * k) <= n
                    /\ (k = 2 /\ n = 3) => rate.hundredths = 6667
                    /\ (k = 1 /\ n = 6) => rate.hundredths = 1667

C25_Witness ==
    /\ computed.fn = "calculate_rocket_success"
    /\ Len(frame.rows) = 6
    /\ DOMAIN computed.items = {"RocketB"}
    /\ computed.items["RocketB"] = [isnan |-> FALSE, hundredths |-> 1667]

\* C26: no call of the three statistics functions raises; on an empty frame,
\* a missing column, a success column with a text that is no number, an index
\* that is no DatetimeIndex, or a rejected bucket rule, the function returns
\* its empty result ({} or an empty integer series).
TextInSuccess ==
    \E i \in Positions : frame.rows[i].success \notin {"True", "False", "NaN", "None"}
IsEmptyFrame == frame.rows = <<>> \/ frame.columns = {}
C26_EmptyResultOnUnusableInput ==
    computed.fn # "idle" =>
        /\ computed.kind = "returned"
        /\ (computed.fn = "calculate_rocket_success"
               /\ (IsEmptyFrame \/ "rocket_name" \notin frame.columns
                      \/ "success" \notin frame.columns \/ TextInSuccess)) =>
              (computed.type = "dict" /\ DOMAIN computed.items = {})
        /\ (computed.fn = "calculate_group_by_counts"
               /\ (IsEmptyFrame \/ computed.arg \notin frame.columns)) =>
              (computed.type = "dict" /\ DOMAIN computed.items = {})
        /\ (computed.fn = "calculate_time_bucket_counts"
               /\ (IsEmptyFrame \/ frame.index # "DatetimeIndex"
                      \/ computed.arg = "fortnight")) =>
              (computed.type = "Series[int]" /\ DOMAIN computed.items = {})

C26_Witness ==
    /\ computed.fn = "calculate_rocket_success"
    /\ Len(frame.rows) = 2
    /\ frame.rows[1].success = "True"
    /\ frame.rows[2].success = "Succeeded"
    /\ computed.kind = "returned"
    /\ DOMAIN computed.items = {}


\* C27: the query has no key but date_utc, rocket_name, success and
\* launchpad_name; success is True for "Successful", False for "Failed", None
\* for "Upcoming/TBD" and absent for "All"; the $in condition on rocket_name
\* (launchpad_name) is there exactly when the list of selected rockets
\* (sites) holds a name, and lists them; for a start and an end date the
\* date_utc condition runs from 00:00:00 of the start date to 23:59:59.999999
\* of the end date, both included.
ChosenNames(selection) == IF selection.isnone THEN <<>> ELSE selection.items
C27_QueryFromSelections ==
    mongo_query.built =>
        /\ mongo_query.keys \subseteq {"date_utc", "rocket_name", "success", "launchpad_name"}
        /\ filters.selected_status = "Successful" =>
              ("success" \in mongo_query.keys /\ mongo_query.success = "True")
        /\ filters.selected_status = "Failed" =>
              ("success" \in mongo_query.keys /\ mongo_query.success = "False")
        /\ filters.selected_status = "Upcoming/TBD" =>
              ("success" \in mongo_query.keys /\ mongo_query.success = "None")
        /\ filters.selected_status = "All" => "success" \notin mongo_query.keys
        /\ "rocket_name" \in mongo_query.keys <=> ChosenNames(filters.selected_rockets) # <<>>
        /\ "rocket_name" \in mongo_query.keys =>
              mongo_query.rocket_name = filters.selected_rockets.items
        /\ "launchpad_name" \in mongo_query.keys <=> ChosenNames(filters.selected_sites) # <<>>
        /\ "launchpad_name" \in mongo_query.keys =>
              mongo_query.launchpad_name = filters.selected_sites.items
        /\ (filters.start_date_val.isdate /\ filters.end_date_val.isdate) =>
              /\ "date_utc" \in mongo_query.keys
              /\ mongo_query.gte = [day |-> filters.start_date_val.day, time |-> "00:00:00"]
              /\ mongo_query.lte = [day |-> filters.end_date_val.day,
                                    time |-> "23:59:59.999999"]

C27_Witness ==
    /\ mongo_query.built
    /\ filters.selected_status = "Upcoming/TBD"
    /\ filters.selected_rockets = [isnone |-> FALSE, items |-> <<>>]
    /\ filters.selected_sites = [isnone |-> FALSE, items |-> <<"Pad A">>]
    /\ mongo_query.keys = {"date_utc", "success", "launchpad_name"}
    /\ mongo_query.gte.day = 19372
    /\ mongo_query.lte.day = 19400


\* C28 as claimed: when the second of two cycles has fetched the same three
\* lists as the first, whose store_launches was answered by the server, its
\* own store_launches (answered too) returns 0 and leaves the collection
\* with the documents it had, and the cycle makes no run of notify_webhook.
\* Violated: for an empty list of launches (see C29) store_launches raises.
SecondCycleSameData ==
    /\ Len(history) = 1
    /\ history[1].fetches = 3
    /\ history[1].store \in {"returned", "InvalidOperation"}
    /\ Len(calls) >= 5
    /\ flow.raw_launches = history[1].raw_launches
    /\ flow.launchpads = history[1].launchpads
    /\ flow.rockets = history[1].rockets
    /\ stored.kind # "ServerSelectionTimeoutError"
C28_SecondCycleIdempotent ==
    SecondCycleSameData =>
        /\ stored.kind = "returned"
        /\ stored.count = 0
        /\ collection = stored.before
        /\ {i \in DOMAIN calls : calls[i].task = "notify_webhook"} = {}
        /\ posts = <<>>

\* C29 as claimed: in a cycle whose transform_launches returned the empty
\* list (no launch fetched, or none that is a mapping), store_launches,
\* answered by the server, returns 0 and leaves the collection as it was, the
\* cycle does not fail, and nothing is posted.
\* Violated: bulk_write refuses the empty list of operations.
C29_EmptyCycleCompletes ==
    (Len(history) = 0 /\ Len(calls) >= 5 /\ stored.launches = <<>>
        /\ stored.kind # "ServerSelectionTimeoutError") =>
        /\ stored.kind = "returned"
        /\ stored.count = 0
        /\ collection = stored.before
        /\ flow.step # "failed"
        /\ posts = <<>>

====
